---- MODULE Spec2Model ----
(***************************************************************************)
(* A model of the RESP codec and command layer of simple-redis.            *)
(*                                                                         *)
(* Bytes are one-character strings and a buffer is a sequence of bytes.    *)
(* A decoder is an operator from the buffer it is handed to a record       *)
(*   [k |-> outcome, v |-> value, rest |-> the buffer as the call left it] *)
(* where k is "ok" or the name of the RespError variant returned.          *)
(***************************************************************************)
EXTENDS Integers, Sequences, FiniteSets, TLC

VARIABLES sent, wire, buf, last, backend, cmd, reply, written

vars == <<sent, wire, buf, last, backend, cmd, reply, written>>

(***************************************************************************)
(* Bounds of the model.                                                    *)
(***************************************************************************)
\* largest number of elements of an aggregate the peer writes
MaxElems == 2
\* largest number of frames the peer writes back to back
MaxFrames == 2
\* largest number of arguments after the name of a command array
MaxArgs == 3

(***************************************************************************)
(* Bytes.                                                                  *)
(***************************************************************************)
CR == "\r"
LF == "\n"
CRLF == <<CR, LF>>
CRLF_LEN == Len(CRLF)

Take(b, n) == SubSeq(b, 1, n)
Drop(b, n) == SubSeq(b, n + 1, Len(b))
StartsWith(b, p) == Len(b) >= Len(p) /\ SubSeq(b, 1, Len(p)) = p

\* the bytes of the model in ASCII order (used to order map keys)
Alphabet ==
    << LF, CR, "#", "$", "%", "*", "+", ",", "-", ".",
       "0", "1", "2", "3", "4", "5", "6", "7", "8", "9", ":",
       "E", "G", "H", "K", "L", "O", "S", "T", "X", "_",
       "a", "b", "e", "f", "g", "h", "j", "k", "l", "s", "t", "v", "x", "~" >>

Ord(c) == CHOOSE i \in 1..Len(Alphabet) : Alphabet[i] = c

Digits == <<"0", "1", "2", "3", "4", "5", "6", "7", "8", "9">>
IsDigit(c) == \E i \in 1..10 : Digits[i] = c
DigitVal(c) == (CHOOSE i \in 1..10 : Digits[i] = c) - 1
AllDigits(s) == \A i \in 1..Len(s) : IsDigit(s[i])

\* 0-based offset of the first CRLF of b, or -1
FindCRLF(b) ==
    LET hits == {i \in 1..(Len(b) - 1) : b[i] = CR /\ b[i + 1] = LF}
    IN  IF hits = {} THEN -1
        ELSE (CHOOSE i \in hits : \A j \in hits : i <= j) - 1

RECURSIVE DigitsValue(_)
DigitsValue(s) ==
    IF s = <<>> THEN 0
    ELSE 10 * DigitsValue(Take(s, Len(s) - 1)) + DigitVal(s[Len(s)])

\* the decimal digits of a natural number, as format!("{}", n) writes them
RECURSIVE NatStr(_)
NatStr(n) ==
    IF n < 10 THEN <<Digits[n + 1]>>
    ELSE NatStr(n \div 10) \o <<Digits[(n % 10) + 1]>>

IntStr(n) == IF n < 0 THEN <<"-">> \o NatStr(-n) ELSE NatStr(n)

\* lexicographic order of byte strings (the order of BTreeMap<String, _>)
RECURSIVE LexLess(_, _)
LexLess(a, b) ==
    IF b = <<>> THEN FALSE
    ELSE IF a = <<>> THEN TRUE
    ELSE IF a[1] # b[1] THEN Ord(a[1]) < Ord(b[1])
    ELSE LexLess(Tail(a), Tail(b))

(***************************************************************************)
(* str::parse of the integer types: an optional sign and at least one      *)
(* digit.  The result is [ok, n].                                          *)
(***************************************************************************)
ParseI64(s) ==
    LET body == IF s # <<>> /\ s[1] \in {"+", "-"} THEN Tail(s) ELSE s
        neg  == s # <<>> /\ s[1] = "-"
    IN  IF body = <<>> \/ ~AllDigits(body) THEN [ok |-> FALSE, n |-> 0]
        ELSE [ok |-> TRUE, n |-> IF neg THEN -DigitsValue(body) ELSE DigitsValue(body)]

ParseUsize(s) ==
    LET body == IF s # <<>> /\ s[1] = "+" THEN Tail(s) ELSE s
    IN  IF body = <<>> \/ ~AllDigits(body) THEN [ok |-> FALSE, n |-> 0]
        ELSE [ok |-> TRUE, n |-> DigitsValue(body)]

(***************************************************************************)
(* Doubles.  An f64 is modelled as a decimal [neg, m, e] standing for      *)
(* (-1)^neg * m * 10^e, normalised: m has no trailing zero and zero is     *)
(* [FALSE, 0, 0].  NaN and the infinities are outside the model.           *)
(***************************************************************************)
RECURSIVE Normalise(_, _, _)
Normalise(neg, m, e) ==
    IF m = 0 THEN [neg |-> FALSE, m |-> 0, e |-> 0]
    ELSE IF m % 10 = 0 THEN Normalise(neg, m \div 10, e + 1)
    ELSE [neg |-> neg, m |-> m, e |-> e]

F64(neg, m, e) == Normalise(neg, m, e)

Zeros(n) == [i \in 1..n |-> "0"]

\* the decimal exponent of the leading digit of a nonzero double
Magnitude(d) == Len(NatStr(d.m)) - 1 + d.e

\* self.abs() > 1e+8
AbsAbove1e8(d) == d.m > 0 /\ (Magnitude(d) > 8 \/ (Magnitude(d) = 8 /\ d.m # 1))

\* self.abs() < 1e-8
AbsBelow1eMinus8(d) == d.m = 0 \/ Magnitude(d) < -8

\* format!("{:+e}", self)
FormatLowerExpPlus(d) ==
    LET ds == NatStr(d.m)
    IN  <<IF d.neg THEN "-" ELSE "+", ds[1]>>
        \o (IF Len(ds) > 1 THEN <<".">> \o Tail(ds) ELSE <<>>)
        \o <<"e">>
        \o IntStr(IF d.m = 0 THEN 0 ELSE Magnitude(d))

\* format!("{}", self)
FormatDisplay(d) ==
    LET ds == NatStr(d.m)
        nd == Len(ds)
    IN  (IF d.neg THEN <<"-">> ELSE <<>>)
        \o (IF d.e >= 0 THEN ds \o Zeros(d.e)
            ELSE IF nd > -d.e THEN Take(ds, nd + d.e) \o <<".">> \o Drop(ds, nd + d.e)
            ELSE <<"0", ".">> \o Zeros(-d.e - nd) \o ds)

\* index of the first byte of s that is in cs, or 0
IndexOf(s, cs) ==
    LET hits == {i \in 1..Len(s) : s[i] \in cs}
    IN  IF hits = {} THEN 0 ELSE CHOOSE i \in hits : \A j \in hits : i <= j

\* str::parse::<f64>: [sign] (digits [. digits] | . digits) [(e|E) [sign] digits]
ParseF64(s) ==
    LET signed == s # <<>> /\ s[1] \in {"+", "-"}
        neg    == s # <<>> /\ s[1] = "-"
        r      == IF signed THEN Tail(s) ELSE s
        ei     == IndexOf(r, {"e", "E"})
        mant   == IF ei = 0 THEN r ELSE Take(r, ei - 1)
        ex     == IF ei = 0 THEN <<"0">> ELSE Drop(r, ei)
        di     == IndexOf(mant, {"."})
        ip     == IF di = 0 THEN mant ELSE Take(mant, di - 1)
        fp     == IF di = 0 THEN <<>> ELSE Drop(mant, di)
        exv    == ParseI64(ex)
        wellformed ==
            /\ AllDigits(ip) /\ AllDigits(fp)
            /\ Len(ip) + Len(fp) >= 1
            /\ exv.ok
    IN  IF ~wellformed THEN [ok |-> FALSE, d |-> F64(FALSE, 0, 0)]
        ELSE [ok |-> TRUE, d |-> F64(neg, DigitsValue(ip \o fp), exv.n - Len(fp))]

(***************************************************************************)
(* The frame value model.                                                  *)
(***************************************************************************)
SimpleString(s)  == [t |-> "SimpleString", v |-> s]
SimpleError(s)   == [t |-> "Error", v |-> s]
Integer(n)       == [t |-> "Integer", v |-> n]
BulkString(s)    == [t |-> "BulkString", v |-> s]
RespNullBulkString == [t |-> "NullBulkString", v |-> <<>>]
RespArray(fs)    == [t |-> "Array", v |-> fs]
RespNullArray    == [t |-> "NullArray", v |-> <<>>]
RespNull         == [t |-> "Null", v |-> <<>>]
Boolean(b)       == [t |-> "Boolean", v |-> b]
Double(d)        == [t |-> "Double", v |-> d]
\* a map is its entries <<key, value>> in strictly increasing key order
RespMap(kvs)     == [t |-> "Map", v |-> kvs]
RespSet(fs)      == [t |-> "Set", v |-> fs]
\* the place of the value in a result that carries none
NoFrame          == [t |-> "None", v |-> <<>>]

\* BTreeMap::insert on the sorted entry list
RECURSIVE MapInsert(_, _, _)
MapInsert(kvs, key, value) ==
    IF kvs = <<>> THEN <<<<key, value>>>>
    ELSE IF kvs[1][1] = key THEN <<<<key, value>>>> \o Tail(kvs)
    ELSE IF LexLess(key, kvs[1][1]) THEN <<<<key, value>>>> \o kvs
    ELSE <<kvs[1]>> \o MapInsert(Tail(kvs), key, value)

(***************************************************************************)
(* The encoder.                                                            *)
(***************************************************************************)
\* double: ",[<+|->]<integral>[.<fractional>][<E|e>[sign]<exponent>]\r\n"
f64_encode(d) ==
    LET ret == IF AbsAbove1e8(d) \/ AbsBelow1eMinus8(d)
               THEN <<",">> \o FormatLowerExpPlus(d) \o CRLF
               ELSE LET sign == IF d.neg THEN <<>> ELSE <<"+">>
                    IN  <<",">> \o sign \o FormatDisplay(d) \o CRLF
    IN  ret

\* integer: ":[<+|->]<value>\r\n"
i64_encode(n) ==
    LET sign == IF n < 0 THEN <<>> ELSE <<"+">>
    IN  <<":">> \o sign \o IntStr(n) \o CRLF

SimpleString_encode(s) == <<"+">> \o s \o CRLF
SimpleError_encode(s)  == <<"-">> \o s \o CRLF
BulkString_encode(s)   == <<"$">> \o NatStr(Len(s)) \o CRLF \o s \o CRLF
bool_encode(b)         == <<"#", IF b THEN "t" ELSE "f">> \o CRLF

RECURSIVE RespFrame_encode(_)

RECURSIVE EncodeEach(_)
EncodeEach(fs) ==
    IF fs = <<>> THEN <<>> ELSE RespFrame_encode(fs[1]) \o EncodeEach(Tail(fs))

RECURSIVE EncodeEntries(_)
EncodeEntries(kvs) ==
    IF kvs = <<>> THEN <<>>
    ELSE SimpleString_encode(kvs[1][1]) \o RespFrame_encode(kvs[1][2])
         \o EncodeEntries(Tail(kvs))

\* set: "~<number-of-elements>\r\n<element-1>...<element-n>"
RespSet_encode(fs) == <<"~">> \o NatStr(Len(fs)) \o CRLF \o EncodeEach(fs)

RespArray_encode(fs) == <<"*">> \o NatStr(Len(fs)) \o CRLF \o EncodeEach(fs)

RespMap_encode(kvs) == <<"%">> \o NatStr(Len(kvs)) \o CRLF \o EncodeEntries(kvs)

RespFrame_encode(f) ==
    CASE f.t = "SimpleString"   -> SimpleString_encode(f.v)
      [] f.t = "Error"          -> SimpleError_encode(f.v)
      [] f.t = "Integer"        -> i64_encode(f.v)
      [] f.t = "BulkString"     -> BulkString_encode(f.v)
      [] f.t = "NullBulkString" -> <<"$", "-", "1">> \o CRLF
      [] f.t = "Array"          -> RespArray_encode(f.v)
      [] f.t = "NullArray"      -> <<"*", "-", "1">> \o CRLF
      [] f.t = "Null"           -> <<"_">> \o CRLF
      [] f.t = "Boolean"        -> bool_encode(f.v)
      [] f.t = "Double"         -> f64_encode(f.v)
      [] f.t = "Map"            -> RespMap_encode(f.v)
      [] f.t = "Set"            -> RespSet_encode(f.v)

(***************************************************************************)
(* Results.  A decode result carries the buffer as the call left it; an    *)
(* expect_length result carries the length.                                *)
(***************************************************************************)
Ok(v, rest)     == [k |-> "ok", v |-> v, rest |-> rest]
Err(kind, rest) == [k |-> kind, v |-> NoFrame, rest |-> rest]
OkLen(n)        == [k |-> "ok", n |-> n]
ErrLen(kind)    == [k |-> kind, n |-> 0]

IsOk(r)         == r.k = "ok"
IsIncomplete(r) == r.k = "NotComplete"
IsMalformed(r)  == r.k \notin {"ok", "NotComplete"}
Class(r)        == IF IsOk(r) THEN "ok"
                   ELSE IF IsIncomplete(r) THEN "incomplete" ELSE "malformed"

(***************************************************************************)
(* Strategy A: the helpers and primitive codecs of the incremental         *)
(* decoder.                                                                *)
(***************************************************************************)
\* the offset of the CRLF that ends a line frame starting with prefix
extract_simple_frame_data(b, prefix) ==
    IF Len(b) < Len(prefix) THEN ErrLen("NotComplete")
    ELSE IF ~StartsWith(b, prefix) THEN ErrLen("InvalidFrameType")
    ELSE IF FindCRLF(b) < 0 THEN ErrLen("NotComplete")
    ELSE OkLen(FindCRLF(b))

\* a frame that is one fixed literal
extract_fixed_data(b, expect) ==
    IF Len(b) < Len(expect) THEN Err("NotComplete", b)
    ELSE IF ~StartsWith(b, expect) THEN Err("InvalidFrameType", b)
    ELSE Ok(NoFrame, Drop(b, Len(expect)))

\* the header "<prefix><count>\r\n": [k, end, len]
parse_length(b, prefix) ==
    LET e == extract_simple_frame_data(b, prefix)
        n == ParseUsize(SubSeq(b, Len(prefix) + 1, e.n))
    IN  IF ~IsOk(e) THEN [k |-> e.k, end |-> 0, len |-> 0]
        ELSE IF ~n.ok THEN [k |-> "ParseIntError", end |-> 0, len |-> 0]
        ELSE [k |-> "ok", end |-> e.n, len |-> n.n]

SimpleString_decode(b) ==
    LET e == extract_simple_frame_data(b, <<"+">>)
    IN  IF ~IsOk(e) THEN Err(e.k, b)
        ELSE Ok(SimpleString(SubSeq(b, 2, e.n)), Drop(b, e.n + CRLF_LEN))

SimpleString_expect_length(b) ==
    LET e == extract_simple_frame_data(b, <<"+">>)
    IN  IF ~IsOk(e) THEN e ELSE OkLen(e.n + CRLF_LEN)

SimpleError_decode(b) ==
    LET e == extract_simple_frame_data(b, <<"-">>)
    IN  IF ~IsOk(e) THEN Err(e.k, b)
        ELSE Ok(SimpleError(SubSeq(b, 2, e.n)), Drop(b, e.n + CRLF_LEN))

SimpleError_expect_length(b) ==
    LET e == extract_simple_frame_data(b, <<"-">>)
    IN  IF ~IsOk(e) THEN e ELSE OkLen(e.n + CRLF_LEN)

i64_decode(b) ==
    LET e == extract_simple_frame_data(b, <<":">>)
        n == ParseI64(SubSeq(b, 2, e.n))
    IN  IF ~IsOk(e) THEN Err(e.k, b)
        ELSE IF ~n.ok THEN Err("ParseIntError", b)
        ELSE Ok(Integer(n.n), Drop(b, e.n + CRLF_LEN))

i64_expect_length(b) ==
    LET e == extract_simple_frame_data(b, <<":">>)
    IN  IF ~IsOk(e) THEN e ELSE OkLen(e.n + CRLF_LEN)

RespNull_decode(b) ==
    LET r == extract_fixed_data(b, <<"_">> \o CRLF)
    IN  IF IsOk(r) THEN Ok(RespNull, r.rest) ELSE r

RespNull_expect_length(b) ==
    LET r == extract_fixed_data(b, <<"_">> \o CRLF)
    IN  IF IsOk(r) THEN OkLen(3) ELSE ErrLen(r.k)

RespNullBulkString_decode(b) ==
    LET r == extract_fixed_data(b, <<"$", "-", "1">> \o CRLF)
    IN  IF IsOk(r) THEN Ok(RespNullBulkString, r.rest) ELSE r

RespNullArray_decode(b) ==
    LET r == extract_fixed_data(b, <<"*", "-", "1">> \o CRLF)
    IN  IF IsOk(r) THEN Ok(RespNullArray, r.rest) ELSE r

bool_decode(b) ==
    LET t == extract_fixed_data(b, <<"#", "t">> \o CRLF)
        f == extract_fixed_data(b, <<"#", "f">> \o CRLF)
    IN  IF IsOk(t) THEN Ok(Boolean(TRUE), t.rest)
        ELSE IF IsIncomplete(t) THEN t
        ELSE IF IsOk(f) THEN Ok(Boolean(FALSE), f.rest)
        ELSE f

bool_expect_length(b) ==
    LET r == bool_decode(b)
    IN  IF IsOk(r) THEN OkLen(4) ELSE ErrLen(r.k)

\* - double: ",[<+|->]<integral>[.<fractional>][<E|e>[sign]<exponent>]\r\n"
\* the frame is split off the buffer before its text is parsed
f64_decode(b) ==
    LET e    == extract_simple_frame_data(b, <<",">>)
        data == Take(b, e.n + CRLF_LEN)
        left == Drop(b, e.n + CRLF_LEN)
        d    == ParseF64(SubSeq(data, 2, e.n))
    IN  IF ~IsOk(e) THEN Err(e.k, b)
        ELSE IF ~d.ok THEN Err("ParseFloatError", left)
        ELSE Ok(Double(d.d), left)

\* the length without the terminator
f64_expect_length_unterminated(b) ==
    LET e == extract_simple_frame_data(b, <<",">>)
    IN  IF ~IsOk(e) THEN e ELSE OkLen(e.n)

f64_expect_length(b) ==
    LET e == extract_simple_frame_data(b, <<",">>)
    IN  IF ~IsOk(e) THEN e ELSE OkLen(e.n + CRLF_LEN)

BulkString_decode(b) ==
    LET h        == parse_length(b, <<"$">>)
        remained == Drop(b, h.end + CRLF_LEN)
    IN  IF ~IsOk(h) THEN Err(h.k, b)
        ELSE IF Len(remained) < h.len + CRLF_LEN THEN Err("NotComplete", b)
        ELSE IF SubSeq(remained, h.len + 1, h.len + CRLF_LEN) # CRLF
             THEN Err("InvalidFrame", b)
        ELSE Ok(BulkString(Take(remained, h.len)), Drop(remained, h.len + CRLF_LEN))

BulkString_expect_length(b) ==
    LET h     == parse_length(b, <<"$">>)
        total == h.end + CRLF_LEN + h.len + CRLF_LEN
    IN  IF StartsWith(b, <<"$", "-", "1">> \o CRLF) THEN OkLen(5)
        ELSE IF ~IsOk(h) THEN ErrLen(h.k)
        ELSE IF Len(b) < total THEN ErrLen("NotComplete")
        ELSE IF SubSeq(b, total - 1, total) # CRLF THEN ErrLen("InvalidFrame")
        ELSE OkLen(total)

RECURSIVE RespFrame_decode(_)
RECURSIVE RespFrame_expect_length(_)

\* for _ in 0..len { frames.push(RespFrame::decode(buf)?) }
RECURSIVE DecodeFrames(_, _, _)
RECURSIVE DecodeFramesPush(_, _, _)
DecodeFrames(b, n, frames) ==
    IF n <= 0 THEN Ok(frames, b)
    ELSE DecodeFramesPush(RespFrame_decode(b), n, frames)

DecodeFramesPush(r, n, frames) ==
    IF ~IsOk(r) THEN r
    ELSE DecodeFrames(r.rest, n - 1, Append(frames, r.v))

\* for _ in 0..len { key = SimpleString::decode(buf)?; value = RespFrame::decode(buf)? }
RECURSIVE DecodeEntries(_, _, _)
RECURSIVE DecodeEntryValue(_, _, _)
RECURSIVE DecodeEntryInsert(_, _, _, _)
DecodeEntries(b, n, kvs) ==
    IF n <= 0 THEN Ok(kvs, b)
    ELSE DecodeEntryValue(SimpleString_decode(b), n, kvs)

DecodeEntryValue(key, n, kvs) ==
    IF ~IsOk(key) THEN key
    ELSE DecodeEntryInsert(key, RespFrame_decode(key.rest), n, kvs)

DecodeEntryInsert(key, value, n, kvs) ==
    IF ~IsOk(value) THEN value
    ELSE DecodeEntries(value.rest, n - 1, MapInsert(kvs, key.v.v, value.v))

\* the lengths of len nested frames (of len key/value pairs for a map), added to total
RECURSIVE SumLengths(_, _, _, _)
RECURSIVE SumLengthsKey(_, _, _, _, _)
RECURSIVE SumLengthsFrame(_, _, _, _, _)
SumLengths(data, len, total, prefix) ==
    IF len <= 0 THEN OkLen(total)
    ELSE IF prefix = <<"%">>
    THEN SumLengthsKey(data, SimpleString_expect_length(data), len, total, prefix)
    ELSE SumLengthsFrame(data, RespFrame_expect_length(data), len, total, prefix)

SumLengthsKey(data, key, len, total, prefix) ==
    IF ~IsOk(key) THEN key
    ELSE SumLengthsFrame(Drop(data, key.n), RespFrame_expect_length(Drop(data, key.n)),
                         len, total + key.n, prefix)

SumLengthsFrame(data, r, len, total, prefix) ==
    IF ~IsOk(r) THEN r
    ELSE SumLengths(Drop(data, r.n), len - 1, total + r.n, prefix)

calc_total_length(b, end, len, prefix) ==
    SumLengths(Drop(b, end + CRLF_LEN), len, end + CRLF_LEN, prefix)

RespArray_collect(frames) ==
    IF ~IsOk(frames) THEN frames ELSE Ok(RespArray(frames.v), frames.rest)

RespArray_decode_sized(b, h, total_len) ==
    IF ~IsOk(total_len) THEN Err(total_len.k, b)
    ELSE IF Len(b) < total_len.n THEN Err("NotComplete", b)
    ELSE RespArray_collect(DecodeFrames(Drop(b, h.end + CRLF_LEN), h.len, <<>>))

RespArray_decode_counted(b, h) ==
    IF ~IsOk(h) THEN Err(h.k, b)
    ELSE RespArray_decode_sized(b, h, calc_total_length(b, h.end, h.len, <<"*">>))

RespArray_decode(b) == RespArray_decode_counted(b, parse_length(b, <<"*">>))

RespArray_expect_length_counted(b, h) ==
    IF StartsWith(b, <<"*", "-", "1">> \o CRLF) THEN OkLen(5)
    ELSE IF ~IsOk(h) THEN ErrLen(h.k)
    ELSE calc_total_length(b, h.end, h.len, <<"*">>)

RespArray_expect_length(b) ==
    RespArray_expect_length_counted(b, parse_length(b, <<"*">>))

RespMap_collect(entries) ==
    IF ~IsOk(entries) THEN entries ELSE Ok(RespMap(entries.v), entries.rest)

RespMap_decode_sized(b, h, total_len) ==
    IF ~IsOk(total_len) THEN Err(total_len.k, b)
    ELSE IF Len(b) < total_len.n THEN Err("NotComplete", b)
    ELSE RespMap_collect(DecodeEntries(Drop(b, h.end + CRLF_LEN), h.len, <<>>))

RespMap_decode_counted(b, h) ==
    IF ~IsOk(h) THEN Err(h.k, b)
    ELSE IF h.len <= 0 THEN Err("InvalidFrameLength", b)
    ELSE RespMap_decode_sized(b, h, calc_total_length(b, h.end, h.len, <<"%">>))

RespMap_decode(b) == RespMap_decode_counted(b, parse_length(b, <<"%">>))

RespMap_expect_length_counted(b, h) ==
    IF ~IsOk(h) THEN ErrLen(h.k)
    ELSE IF h.len <= 0 THEN ErrLen("InvalidFrameLength")
    ELSE calc_total_length(b, h.end, h.len, <<"%">>)

RespMap_expect_length(b) ==
    RespMap_expect_length_counted(b, parse_length(b, <<"%">>))

\* Ok(RespSet::new(frames))
RespSet_collect(frames) ==
    IF ~IsOk(frames) THEN frames ELSE Ok(RespSet(frames.v), frames.rest)

\* if buf.len() < total_len { NotComplete }; buf.advance(end + CRLF_LEN); the loop
RespSet_decode_sized(b, h, total_len) ==
    IF ~IsOk(total_len) THEN Err(total_len.k, b)
    ELSE IF Len(b) < total_len.n THEN Err("NotComplete", b)
    ELSE RespSet_collect(DecodeFrames(Drop(b, h.end + CRLF_LEN), h.len, <<>>))

\* let total_len = calc_total_length(buf, end, len, Self::PREFIX)?
RespSet_decode_counted(b, h) ==
    IF ~IsOk(h) THEN Err(h.k, b)
    ELSE RespSet_decode_sized(b, h, calc_total_length(b, h.end, h.len, <<"~">>))

\* - set: "~<number-of-elements>\r\n<element-1>...<element-n>"
RespSet_decode(b) == RespSet_decode_counted(b, parse_length(b, <<"~">>))

RespSet_expect_length_counted(b, h) ==
    IF ~IsOk(h) THEN ErrLen(h.k)
    ELSE calc_total_length(b, h.end, h.len, <<"~">>)

RespSet_expect_length(b) ==
    RespSet_expect_length_counted(b, parse_length(b, <<"~">>))

(***************************************************************************)
(* Strategy A: the dispatch on the leading type byte.                      *)
(***************************************************************************)
RespFrame_decode(b) ==
    IF b = <<>> THEN Err("NotComplete", b)
    ELSE CASE b[1] = "+" -> SimpleString_decode(b)
           [] b[1] = "-" -> SimpleError_decode(b)
           [] b[1] = ":" -> i64_decode(b)
           [] b[1] = "$" ->
                \* try null bulk string first
                LET r == RespNullBulkString_decode(b)
                IN  IF IsOk(r) \/ IsIncomplete(r) THEN r ELSE BulkString_decode(b)
           [] b[1] = "*" ->
                \* try null array first
                LET r == RespNullArray_decode(b)
                IN  IF IsOk(r) \/ IsIncomplete(r) THEN r ELSE RespArray_decode(b)
           [] b[1] = "_" -> RespNull_decode(b)
           [] b[1] = "#" -> bool_decode(b)
           [] b[1] = "," -> f64_decode(b)
           [] b[1] = "%" -> RespMap_decode(b)
           [] b[1] = "~" -> RespSet_decode(b)
           [] OTHER      -> Err("InvalidFrameType", b)

RespFrame_expect_length(b) ==
    IF b = <<>> THEN ErrLen("NotComplete")
    ELSE CASE b[1] = "*" -> RespArray_expect_length(b)
           [] b[1] = "~" -> RespSet_expect_length(b)
           [] b[1] = "%" -> RespMap_expect_length(b)
           [] b[1] = "$" -> BulkString_expect_length(b)
           [] b[1] = ":" -> i64_expect_length(b)
           [] b[1] = "+" -> SimpleString_expect_length(b)
           [] b[1] = "-" -> SimpleError_expect_length(b)
           [] b[1] = "#" -> bool_expect_length(b)
           [] b[1] = "," -> f64_expect_length(b)
           [] b[1] = "_" -> RespNull_expect_length(b)
           [] OTHER      -> ErrLen("NotComplete")

(***************************************************************************)
(* Strategy B: the winnow parsers over an immutable slice.  A parser       *)
(* result is [k, v, rest]: k is "ok" or the ErrMode of the failure and     *)
(* rest is the slice the cursor was left at.                               *)
(***************************************************************************)
POk(v, rest) == [k |-> "ok", v |-> v, rest |-> rest]
PErr(mode)   == [k |-> mode, v |-> NoFrame, rest |-> <<>>]

\* the number of leading digits of s (what digit1 takes)
DigitPrefixLen(s) ==
    LET stops == {i \in 1..Len(s) : ~IsDigit(s[i])}
    IN  IF stops = {} THEN Len(s)
        ELSE (CHOOSE i \in stops : \A j \in stops : i <= j) - 1

\* terminated(take_until(0.., CRLF), CRLF): the line and the slice after it
TakeLine(input) ==
    IF FindCRLF(input) < 0 THEN PErr("Backtrack")
    ELSE POk(Take(input, FindCRLF(input)), Drop(input, FindCRLF(input) + CRLF_LEN))

simple_parser(input) ==
    LET r == TakeLine(input)
    IN  IF IsOk(r) THEN POk(NoFrame, r.rest) ELSE r

parse_string(input) == TakeLine(input)

\* - simple string: "+OK\r\n"
simple_string(input) ==
    LET r == parse_string(input)
    IN  IF IsOk(r) THEN POk(SimpleString(r.v), r.rest) ELSE r

\* - error: "-ERR unknown command 'foobar'\r\n"
error(input) ==
    LET r == parse_string(input)
    IN  IF IsOk(r) THEN POk(SimpleError(r.v), r.rest) ELSE r

\* - integer: ":-1234\r\n", need to take care of the sign
integer(input) ==
    LET sign  == input # <<>> /\ input[1] = "-"
        after == IF sign THEN Tail(input) ELSE input
        nd    == DigitPrefixLen(after)
        v     == DigitsValue(Take(after, nd))
    IN  IF nd = 0 THEN PErr("Backtrack")
        ELSE IF ~StartsWith(Drop(after, nd), CRLF) THEN PErr("Backtrack")
        ELSE POk(IF sign THEN -v ELSE v, Drop(after, nd + CRLF_LEN))

\* - null bulk string: "$-1\r\n"
null_bulk_string(input) ==
    IF StartsWith(input, <<"-", "1">> \o CRLF)
    THEN POk(RespNullBulkString, Drop(input, 4))
    ELSE PErr("Backtrack")

\* - bulk string: "$6\r\nfoobar\r\n"
bulk_string_counted(len) ==
    IF ~IsOk(len) THEN len
    ELSE IF len.v = 0 THEN POk(BulkString(<<>>), len.rest)
    ELSE IF len.v < 0 THEN PErr("Cut")
    \* terminated(take(len as usize), CRLF)
    ELSE IF Len(len.rest) < len.v THEN PErr("Backtrack")
    ELSE IF ~StartsWith(Drop(len.rest, len.v), CRLF) THEN PErr("Backtrack")
    ELSE POk(BulkString(Take(len.rest, len.v)), Drop(len.rest, len.v + CRLF_LEN))

bulk_string(input) == bulk_string_counted(integer(input))

\* a scanner of bulk strings that skips the data without comparing the
\* declared length with the bytes present
bulk_string_len_unguarded(len) ==
    IF ~IsOk(len) THEN len
    ELSE IF len.v = 0 \/ len.v = -1 THEN POk(NoFrame, len.rest)
    ELSE IF len.v < -1 THEN PErr("Cut")
    ELSE POk(NoFrame, Drop(len.rest, len.v + 2))

bulk_string_len_counted(len) ==
    IF ~IsOk(len) THEN len
    ELSE IF len.v = 0 \/ len.v = -1 THEN POk(NoFrame, len.rest)
    ELSE IF len.v < -1 THEN PErr("Cut")
    \* we don't really need to parse the data, just skip it
    ELSE IF Len(len.rest) < len.v + 2 THEN PErr("Incomplete")
    ELSE POk(NoFrame, Drop(len.rest, len.v + 2))

bulk_string_len(input) == bulk_string_len_counted(integer(input))

\* - null array: "*-1\r\n"
null_array(input) ==
    IF StartsWith(input, <<"-", "1">> \o CRLF)
    THEN POk(RespNullArray, Drop(input, 4))
    ELSE PErr("Backtrack")

\* - boolean: "#t\r\n"
boolean(input) ==
    IF input # <<>> /\ input[1] \in {"t", "f"}
    THEN POk(Boolean(input[1] = "t"), Tail(input))
    ELSE PErr("Backtrack")

\* - float: ",3.14\r\n"
double_parsed(line, d) ==
    IF ~d.ok THEN PErr("Backtrack") ELSE POk(Double(d.d), line.rest)

double_line(line) ==
    IF ~IsOk(line) THEN line ELSE double_parsed(line, ParseF64(line.v))

double(input) == double_line(TakeLine(input))

\* - null: "_\r\n"
null(input) ==
    IF StartsWith(input, CRLF) THEN POk(RespNull, Drop(input, CRLF_LEN))
    ELSE PErr("Backtrack")

RECURSIVE parse_frame(_)
RECURSIVE parse_frame_len(_)

\* for _ in 0..len { arr.push(parse_frame(input)?) }
RECURSIVE ParseFrames(_, _, _)
RECURSIVE ParseFramesPush(_, _, _)
ParseFrames(input, n, arr) ==
    IF n <= 0 THEN POk(arr, input)
    ELSE ParseFramesPush(parse_frame(input), n, arr)

ParseFramesPush(r, n, arr) ==
    IF ~IsOk(r) THEN r
    ELSE ParseFrames(r.rest, n - 1, Append(arr, r.v))

\* Ok(RespArray(arr))
array_collect(arr) ==
    IF ~IsOk(arr) THEN arr ELSE POk(RespArray(arr.v), arr.rest)

array_counted(len) ==
    IF ~IsOk(len) THEN len
    ELSE IF len.v = 0 THEN POk(RespArray(<<>>), len.rest)
    ELSE IF len.v < 0 THEN PErr("Cut")
    ELSE array_collect(ParseFrames(len.rest, len.v, <<>>))

\* - array: "*2\r\n$3\r\nfoo\r\n$3\r\nbar\r\n"
array(input) == array_counted(integer(input))

\* for _ in 0..len { parse_frame_len(input)? }
RECURSIVE SkipFrames(_, _)
RECURSIVE SkipFramesNext(_, _)
SkipFrames(input, n) ==
    IF n <= 0 THEN POk(NoFrame, input)
    ELSE SkipFramesNext(parse_frame_len(input), n)

SkipFramesNext(r, n) ==
    IF ~IsOk(r) THEN r ELSE SkipFrames(r.rest, n - 1)

array_len_counted(len) ==
    IF ~IsOk(len) THEN len
    ELSE IF len.v = 0 \/ len.v = -1 THEN POk(NoFrame, len.rest)
    ELSE IF len.v < -1 THEN PErr("Cut")
    ELSE SkipFrames(len.rest, len.v)

array_len(input) == array_len_counted(integer(input))

\* let key = preceded('+', parse_string).parse_next(input)?
map_key(input) ==
    IF input # <<>> /\ input[1] = "+"
    THEN parse_string(Tail(input)) ELSE PErr("Backtrack")

\* for _ in 0..len { key = preceded('+', parse_string); value = parse_frame; insert }
RECURSIVE ParseEntries(_, _, _)
RECURSIVE ParseEntryValue(_, _, _)
RECURSIVE ParseEntryInsert(_, _, _, _)
ParseEntries(input, n, kvs) ==
    IF n <= 0 THEN POk(kvs, input)
    ELSE ParseEntryValue(map_key(input), n, kvs)

ParseEntryValue(key, n, kvs) ==
    IF ~IsOk(key) THEN key
    ELSE ParseEntryInsert(key, parse_frame(key.rest), n, kvs)

ParseEntryInsert(key, value, n, kvs) ==
    IF ~IsOk(value) THEN value
    ELSE ParseEntries(value.rest, n - 1, MapInsert(kvs, key.v, value.v))

\* Ok(RespMap(map))
map_collect(entries) ==
    IF ~IsOk(entries) THEN entries ELSE POk(RespMap(entries.v), entries.rest)

map_counted(len) ==
    IF ~IsOk(len) THEN len
    ELSE IF len.v <= 0 THEN PErr("Cut")
    ELSE map_collect(ParseEntries(len.rest, len.v, <<>>))

\* - map: "%1\r\n+foo\r\n-bar\r\n"
map(input) == map_counted(integer(input))

\* for _ in 0..len { skip a line; parse_frame_len(input)? }
RECURSIVE SkipEntries(_, _)
RECURSIVE SkipEntryValue(_, _)
RECURSIVE SkipEntryNext(_, _)
SkipEntries(input, n) ==
    IF n <= 0 THEN POk(NoFrame, input)
    ELSE SkipEntryValue(simple_parser(input), n)

SkipEntryValue(key, n) ==
    IF ~IsOk(key) THEN key
    ELSE SkipEntryNext(parse_frame_len(key.rest), n)

SkipEntryNext(value, n) ==
    IF ~IsOk(value) THEN value ELSE SkipEntries(value.rest, n - 1)

map_len_counted(len) ==
    IF ~IsOk(len) THEN len
    ELSE IF len.v <= 0 THEN PErr("Cut")
    ELSE SkipEntries(len.rest, len.v)

map_len(input) == map_len_counted(integer(input))

\* alt((first, second)): the second is tried where the first backtracked
Alt(first, second) == IF first.k = "Backtrack" THEN second ELSE first

parse_frame_len(input) ==
    IF input = <<>> THEN PErr("Backtrack")
    ELSE LET body == Tail(input)
         IN  CASE input[1] = "+" -> simple_parser(body)
               [] input[1] = "-" -> simple_parser(body)
               [] input[1] = ":" -> simple_parser(body)
               [] input[1] = "$" -> bulk_string_len(body)
               [] input[1] = "*" -> array_len(body)
               [] input[1] = "_" -> simple_parser(body)
               [] input[1] = "#" -> simple_parser(body)
               [] input[1] = "," -> simple_parser(body)
               [] input[1] = "%" -> map_len(body)
               \* b'~' => set,
               [] OTHER          -> PErr("Backtrack")

\* integer.map(RespFrame::Integer)
integer_frame(r) == IF IsOk(r) THEN POk(Integer(r.v), r.rest) ELSE r

parse_frame(input) ==
    IF input = <<>> THEN PErr("Backtrack")
    ELSE LET body == Tail(input)
         IN  CASE input[1] = "+" -> simple_string(body)
               [] input[1] = "-" -> error(body)
               [] input[1] = ":" -> integer_frame(integer(body))
               [] input[1] = "$" -> Alt(null_bulk_string(body), bulk_string(body))
               [] input[1] = "*" -> Alt(null_array(body), array(body))
               [] input[1] = "_" -> null(body)
               [] input[1] = "#" -> boolean(body)
               [] input[1] = "," -> double(body)
               [] input[1] = "%" -> map(body)
               \* b'~' => set,
               [] OTHER          -> PErr("Backtrack")

\* the distance the cursor moved, or NotComplete for every error
parse_frame_length_of(input, ret) ==
    IF IsOk(ret) THEN OkLen(Len(input) - Len(ret.rest))
    ELSE ErrLen("NotComplete")

parse_frame_length(input) == parse_frame_length_of(input, parse_frame_len(input))

RespDecodeV2_expect_length(b) == parse_frame_length(b)

\* parse_frame(&mut data.as_ref()).map_err(|e| RespError::InvalidFrame(e.to_string()))
RespDecodeV2_decode_parsed(r, left) ==
    IF ~IsOk(r) THEN Err("InvalidFrame", left) ELSE Ok(r.v, left)

\* let data = buf.split_to(len)
RespDecodeV2_decode_split(b, len) ==
    IF ~IsOk(len) THEN Err(len.k, b)
    ELSE RespDecodeV2_decode_parsed(parse_frame(Take(b, len.n)), Drop(b, len.n))

RespDecodeV2_decode(b) == RespDecodeV2_decode_split(b, RespDecodeV2_expect_length(b))

(***************************************************************************)
(* What the peer writes: encoded frames, and bytes no encoder produces.    *)
(***************************************************************************)
\* sequences of at most n elements of S
SeqsUpTo(S, n) == UNION {[1..k -> S] : k \in 0..n}

OkText    == <<"O", "K">>
SplitText == <<"a", CR, LF>>

Doubles ==
    { F64(FALSE, 15, -1), F64(TRUE, 15, -1), F64(FALSE, 0, 0),
      F64(FALSE, 2, 9), F64(FALSE, 12, -10),
      F64(FALSE, 1, 8), F64(FALSE, 1, -8) }

ScalarFrames ==
    { SimpleString(OkText), SimpleString(<<>>), SimpleString(SplitText),
      SimpleError(<<"E">>), SimpleError(SplitText),
      Integer(7), Integer(0), Integer(-7),
      BulkString(<<>>), BulkString(<<"a", "b">>), BulkString(SplitText),
      RespNullBulkString, RespNullArray, RespNull,
      Boolean(TRUE), Boolean(FALSE) }
    \cup {Double(d) : d \in Doubles}

\* the frames nested in the aggregates the peer writes
ElemFrames ==
    { SimpleString(OkText), Integer(7), BulkString(<<>>), BulkString(<<"a", "b">>),
      RespNull, Boolean(TRUE), Double(F64(FALSE, 15, -1)) }

MapKeys == {<<"j">>, <<"k">>}

RECURSIVE MapOf(_)
MapOf(kvs) ==
    IF kvs = <<>> THEN <<>>
    ELSE MapInsert(MapOf(Take(kvs, Len(kvs) - 1)), kvs[Len(kvs)][1], kvs[Len(kvs)][2])

FlatAggregates ==
    {RespArray(fs) : fs \in SeqsUpTo(ElemFrames, MaxElems)}
    \cup {RespSet(fs) : fs \in SeqsUpTo(ElemFrames, MaxElems)}
    \cup {RespMap(MapOf(kvs)) : kvs \in SeqsUpTo(MapKeys \X ElemFrames, MaxElems)}

InnerFrames ==
    { RespArray(<<>>), RespArray(<<Integer(7), Boolean(TRUE)>>),
      RespArray(<<BulkString(<<>>)>>), RespSet(<<BulkString(<<"a", "b">>)>>),
      RespMap(<<>>), RespMap(<<<<<<"k">>, RespNull>>>>),
      RespMap(<<<<SplitText, RespNull>>>>) }

NestedAggregates ==
    {RespArray(<<i>>) : i \in InnerFrames}
    \cup {RespSet(<<i>>) : i \in InnerFrames}
    \cup {RespMap(<<<<<<"k">>, i>>>>) : i \in InnerFrames}
    \cup {RespSet(<<i, BulkString(<<"a", "b">>)>>) : i \in InnerFrames}

\* the array of the literal scenarios: *2\r\n+OK\r\n-ERR\r\n
ExampleFrames == {RespArray(<<SimpleString(OkText), SimpleError(<<"E", "R", "R">>)>>)}

Frames == ScalarFrames \cup FlatAggregates \cup NestedAggregates \cup ExampleFrames

\* headers with a count no encoder writes, and bytes that start no frame
RawBytes ==
    {<<t>> \o IntStr(n) \o CRLF : t \in {"$", "*", "%", "~"}, n \in {-2, -1, 0}}
    \cup {<<"X">>, <<CR>>, <<"1">>, <<",">> \o CRLF}

FrameItem(f) == [raw |-> FALSE, f |-> f, bytes |-> RespFrame_encode(f)]
RawItem(bs)  == [raw |-> TRUE, f |-> NoFrame, bytes |-> bs]

Items == {FrameItem(f) : f \in Frames} \cup {RawItem(bs) : bs \in RawBytes}

\* what may be followed by more on the same stream, and what may follow
StreamHeads ==
    {RawItem(bs) : bs \in RawBytes}
    \cup {FrameItem(f) : f \in {BulkString(<<>>), Boolean(TRUE), SimpleString(OkText),
                                 Integer(7), RespArray(<<>>)}}
StreamTails ==
    {FrameItem(f) : f \in {SimpleString(OkText), BulkString(<<"a", "b">>)}}
    \cup {RawItem(CRLF)}

RECURSIVE AllBytes(_)
AllBytes(items) ==
    IF items = <<>> THEN <<>> ELSE items[1].bytes \o AllBytes(Tail(items))

\* no line-terminated text of f (simple string, error, map key) holds a CRLF
RECURSIVE WireSafe(_)
WireSafe(f) ==
    CASE f.t \in {"SimpleString", "Error"} -> FindCRLF(f.v) < 0
      [] f.t \in {"Array", "Set"} -> \A i \in 1..Len(f.v) : WireSafe(f.v[i])
      [] f.t = "Map" ->
            \A i \in 1..Len(f.v) : FindCRLF(f.v[i][1]) < 0 /\ WireSafe(f.v[i][2])
      [] OTHER -> TRUE

\* f holds a frame of kind t, at any depth
RECURSIVE Holds(_, _)
Holds(f, t) ==
    \/ f.t = t
    \/ f.t \in {"Array", "Set"} /\ \E i \in 1..Len(f.v) : Holds(f.v[i], t)
    \/ f.t = "Map" /\ \E i \in 1..Len(f.v) : Holds(f.v[i][2], t)

(***************************************************************************)
(* The command layer (cmd/mod.rs) and the backend it runs against.         *)
(***************************************************************************)
Upper == <<"A", "B", "C", "D", "E", "F", "G", "H", "I", "J", "K", "L", "M",
           "N", "O", "P", "Q", "R", "S", "T", "U", "V", "W", "X", "Y", "Z">>
Lower == <<"a", "b", "c", "d", "e", "f", "g", "h", "i", "j", "k", "l", "m",
           "n", "o", "p", "q", "r", "s", "t", "u", "v", "w", "x", "y", "z">>

to_ascii_lowercase(s) ==
    [i \in 1..Len(s) |->
        IF \E j \in 1..Len(Upper) : Upper[j] = s[i]
        THEN Lower[CHOOSE j \in 1..Len(Upper) : Upper[j] = s[i]]
        ELSE s[i]]

RESP_OK == SimpleString(OkText)

\* the command names of Command::try_from, as bytes
b_get     == <<"g", "e", "t">>
b_set     == <<"s", "e", "t">>
b_hget    == <<"h", "g", "e", "t">>
b_hset    == <<"h", "s", "e", "t">>
b_hgetall == <<"h", "g", "e", "t", "a", "l", "l">>

NoCommand    == [t |-> "None"]
Unrecognized == [t |-> "Unrecognized"]
CmdOk(c)     == [k |-> "ok", c |-> c]
CmdErr(kind) == [k |-> kind, c |-> NoCommand]

\* "ok", or the CommandError the validation returns
validate_command(value, names, n_args) ==
    IF Len(value) # n_args + Len(names) THEN "InvalidArgument"
    ELSE IF \E i \in 1..Len(names) :
                \/ value[i].t # "BulkString"
                \/ to_ascii_lowercase(value[i].v) # names[i]
         THEN "InvalidCommand"
         ELSE "ok"

extract_args(value, start) == Drop(value, start)

Get_from_args(args) ==
    IF args[1].t = "BulkString"
    THEN CmdOk([t |-> "Get", key |-> args[1].v])
    ELSE CmdErr("InvalidArgument")

Get_try_from(value) ==
    IF validate_command(value, <<b_get>>, 1) # "ok"
    THEN CmdErr(validate_command(value, <<b_get>>, 1))
    ELSE Get_from_args(extract_args(value, 1))

Set_from_args(args) ==
    IF args[1].t = "BulkString"
    THEN CmdOk([t |-> "Set", key |-> args[1].v, value |-> args[2]])
    ELSE CmdErr("InvalidArgument")

Set_try_from(value) ==
    IF validate_command(value, <<b_set>>, 2) # "ok"
    THEN CmdErr(validate_command(value, <<b_set>>, 2))
    ELSE Set_from_args(extract_args(value, 1))

HGet_from_args(args) ==
    IF args[1].t = "BulkString" /\ args[2].t = "BulkString"
    THEN CmdOk([t |-> "HGet", key |-> args[1].v, field |-> args[2].v])
    ELSE CmdErr("InvalidArgument")

HGet_try_from(value) ==
    IF validate_command(value, <<b_hget>>, 2) # "ok"
    THEN CmdErr(validate_command(value, <<b_hget>>, 2))
    ELSE HGet_from_args(extract_args(value, 1))

HSet_from_args(args) ==
    IF args[1].t = "BulkString" /\ args[2].t = "BulkString"
    THEN CmdOk([t |-> "HSet", key |-> args[1].v, field |-> args[2].v,
                value |-> args[3]])
    ELSE CmdErr("InvalidArgument")

HSet_try_from(value) ==
    IF validate_command(value, <<b_hset>>, 3) # "ok"
    THEN CmdErr(validate_command(value, <<b_hset>>, 3))
    ELSE HSet_from_args(extract_args(value, 1))

HGetAll_from_args(args) ==
    IF args[1].t = "BulkString"
    THEN CmdOk([t |-> "HGetAll", key |-> args[1].v])
    ELSE CmdErr("InvalidArgument")

HGetAll_try_from(value) ==
    IF validate_command(value, <<b_hgetall>>, 1) # "ok"
    THEN CmdErr(validate_command(value, <<b_hgetall>>, 1))
    ELSE HGetAll_from_args(extract_args(value, 1))

\* the conversion without its get arm
Command_try_from_array_no_get(v) ==
    IF v # <<>> /\ v[1].t = "BulkString"
    THEN CASE v[1].v = b_set     -> Set_try_from(v)
           [] v[1].v = b_hget    -> HGet_try_from(v)
           [] v[1].v = b_hset    -> HSet_try_from(v)
           [] v[1].v = b_hgetall -> HGetAll_try_from(v)
           [] OTHER              -> CmdOk(Unrecognized)
    ELSE CmdErr("InvalidCommand")

\* impl TryFrom<RespArray> for Command: the name is matched byte for byte
Command_try_from_array(v) ==
    IF v # <<>> /\ v[1].t = "BulkString"
    THEN CASE v[1].v = b_get     -> Get_try_from(v)
           [] v[1].v = b_set     -> Set_try_from(v)
           [] v[1].v = b_hget    -> HGet_try_from(v)
           [] v[1].v = b_hset    -> HSet_try_from(v)
           [] v[1].v = b_hgetall -> HGetAll_try_from(v)
           [] OTHER              -> CmdOk(Unrecognized)
    ELSE CmdErr("InvalidCommand")

\* impl TryFrom<RespFrame> for Command
Command_try_from_frame(v) ==
    IF v.t = "Array" THEN Command_try_from_array(v.v) ELSE CmdErr("InvalidCommand")

\* the backend: map is key -> frame, hmap is key -> (field -> frame)
Backend_new == [map |-> <<>>, hmap |-> <<>>]

Put(m, key, value) == [j \in DOMAIN m \cup {key} |-> IF j = key THEN value ELSE m[j]]

Backend_get(b, key) ==
    IF key \in DOMAIN b.map THEN b.map[key] ELSE NoFrame

Backend_set(b, key, value) == [b EXCEPT !.map = Put(b.map, key, value)]

Backend_hget(b, key, field) ==
    IF key \in DOMAIN b.hmap /\ field \in DOMAIN b.hmap[key]
    THEN b.hmap[key][field] ELSE NoFrame

Backend_hset(b, key, field, value) ==
    [b EXCEPT !.hmap =
        Put(b.hmap, key,
            Put(IF key \in DOMAIN b.hmap THEN b.hmap[key] ELSE <<>>, field, value))]

\* the fields of a hash as the sorted entries of a map frame
RECURSIVE EntriesOf(_, _)
EntriesOf(h, fields) ==
    IF fields = {} THEN <<>>
    ELSE LET f == CHOOSE x \in fields : TRUE
         IN  MapInsert(EntriesOf(h, fields \ {f}), f, h[f])

Backend_hgetall(b, key) ==
    IF key \in DOMAIN b.hmap THEN EntriesOf(b.hmap[key], DOMAIN b.hmap[key]) ELSE <<>>

Executed(frame, b) == [frame |-> frame, backend |-> b]

\* present value -> that frame, absent -> Null
FrameOrNull(found) == IF found = NoFrame THEN RespNull ELSE found

Get_execute(c, b)     == Executed(FrameOrNull(Backend_get(b, c.key)), b)
Set_execute(c, b)     == Executed(RESP_OK, Backend_set(b, c.key, c.value))
HGet_execute(c, b)    == Executed(FrameOrNull(Backend_hget(b, c.key, c.field)), b)
HSet_execute(c, b)    == Executed(RESP_OK, Backend_hset(b, c.key, c.field, c.value))
HGetAll_execute(c, b) == Executed(RespMap(Backend_hgetall(b, c.key)), b)
\* an unrecognized command answered like a missing key
Unrecognized_execute_null(c, b) == Executed(RespNull, b)
Unrecognized_execute(c, b) == Executed(RESP_OK, b)

\* CommandExecutor::execute, dispatched on the variant
Command_execute(c, b) ==
    CASE c.t = "Get"     -> Get_execute(c, b)
      [] c.t = "Set"     -> Set_execute(c, b)
      [] c.t = "HGet"    -> HGet_execute(c, b)
      [] c.t = "HSet"    -> HSet_execute(c, b)
      [] c.t = "HGetAll" -> HGetAll_execute(c, b)
      [] OTHER           -> Unrecognized_execute(c, b)

\* the frames a client may send as a command
CmdNames ==
    { b_get, <<"G", "E", "T">>, b_set, <<"S", "E", "T">>, b_hget, <<"H", "G", "e", "t">>,
      b_hset, <<"H", "S", "e", "t">>, b_hgetall, <<"p", "i", "n", "g">> }

CmdArgs == {BulkString(<<"k">>), Integer(1)}

CmdFrames ==
    {RespArray(<<BulkString(n)>> \o args) : n \in CmdNames, args \in SeqsUpTo(CmdArgs, MaxArgs)}
    \cup { RespArray(<<>>), RESP_OK, BulkString(b_get), RespNullArray,
           RespArray(<<Integer(1), BulkString(<<"k">>)>>),
           RespArray(<<SimpleString(b_get), BulkString(<<"k">>)>>),
           RespArray(<<BulkString(b_get), BulkString(<<"j">>)>>),
           RespArray(<<BulkString(b_set), BulkString(<<"j">>), BulkString(<<"k">>)>>),
           RespArray(<<BulkString(b_hget), BulkString(<<"k">>), BulkString(<<"j">>)>>) }

(***************************************************************************)
(* The codec as a state machine: the peer writes to the wire, bytes        *)
(* arrive in the receive buffer one at a time, and the reader runs the     *)
(* decoders and the length scanners on what has arrived.                   *)
(***************************************************************************)
NoRes   == Err("none", <<>>)
NoLen   == ErrLen("none")
NoCmd   == [k |-> "none", src |-> NoFrame, c |-> NoCommand]
NoReply == [k |-> "none", frame |-> NoFrame, c |-> NoCommand, src |-> NoFrame,
            before |-> Backend_new]
NoLast  == [op |-> "none", inp |-> <<>>, v1 |-> NoRes, v2 |-> NoRes,
            len1 |-> NoLen, len2 |-> NoLen, parse |-> NoRes]

Init ==
    /\ sent = <<>>
    /\ wire = <<>>
    /\ buf = <<>>
    /\ last = NoLast
    /\ backend = Backend_new
    /\ cmd = NoCmd
    /\ reply = NoReply
    /\ written = <<>>

\* what the peer may write next
Writable ==
    IF sent = <<>> THEN Items
    ELSE IF sent[Len(sent)] \in StreamHeads THEN StreamTails
    ELSE {}

\* the peer encodes a frame (or writes raw bytes) onto the wire
Write ==
    /\ Len(sent) < MaxFrames
    /\ buf = <<>> /\ wire = AllBytes(sent)
    /\ \E item \in Writable :
          /\ sent' = Append(sent, item)
          /\ wire' = wire \o item.bytes
    /\ last' = NoLast
    /\ UNCHANGED <<buf, backend, cmd, reply, written>>

\* buf.extend_from_slice: the next byte arrives
Recv ==
    /\ wire # <<>>
    /\ buf' = Append(buf, Head(wire))
    /\ wire' = Tail(wire)
    /\ last' = NoLast
    /\ UNCHANGED <<sent, backend, cmd, reply, written>>

\* RespDecode::decode(&mut buf): one turn of the loop of v1_decode
Decode ==
    /\ \/ last.op = "none"
       \/ last.op = "decode" /\ IsOk(last.v1) /\ buf # <<>>
    /\ LET r == RespFrame_decode(buf)
       IN  /\ last' = [NoLast EXCEPT !.op = "decode", !.inp = buf, !.v1 = r]
           /\ buf' = r.rest
    /\ UNCHANGED <<sent, wire, backend, cmd, reply, written>>

\* RespDecodeV2::decode(&mut buf): one turn of the loop of v2_decode
DecodeV2 ==
    /\ \/ last.op = "none"
       \/ last.op = "decode_v2" /\ IsOk(last.v2) /\ buf # <<>>
    /\ LET r == RespDecodeV2_decode(buf)
       IN  /\ last' = [NoLast EXCEPT !.op = "decode_v2", !.inp = buf, !.v2 = r]
           /\ buf' = r.rest
    /\ UNCHANGED <<sent, wire, backend, cmd, reply, written>>

\* parse_frame on exactly the bytes the length scanner measured
ParseScanned(b, len) ==
    IF IsOk(len) THEN parse_frame(Take(b, len.n)) ELSE NoRes

\* the benchmark harness: every strategy runs on its own copy of the same bytes
Bench ==
    /\ last.op = "none"
    /\ last' = [ op    |-> "bench",
                 inp   |-> buf,
                 v1    |-> RespFrame_decode(buf),
                 v2    |-> RespDecodeV2_decode(buf),
                 len1  |-> RespFrame_expect_length(buf),
                 len2  |-> parse_frame_length(buf),
                 parse |-> ParseScanned(buf, parse_frame_length(buf)) ]
    /\ UNCHANGED <<sent, wire, buf, backend, cmd, reply, written>>

Next ==
    \/ Write
    \/ Recv
    \/ Decode
    \/ DecodeV2
    \/ Bench

Spec == Init /\ [][Next]_vars

(***************************************************************************)
(* What the harness observed, in the words of the properties below.        *)
(***************************************************************************)
TypeBytes == {"+", "-", ":", "$", "*", "_", "#", ",", "%", "~"}

Benched == last.op = "bench"

\* the peer wrote one encoded frame and nothing else
SoleFrame == Len(sent) = 1 /\ ~sent[1].raw

\* the buffer held exactly encode(f)
Whole == SoleFrame /\ last.inp = sent[1].bytes

\* the buffer held a strict prefix of the encoding of a frame the wire can carry
StrictPrefix ==
    /\ SoleFrame
    /\ WireSafe(sent[1].f)
    /\ Len(last.inp) < Len(sent[1].bytes)
    /\ last.inp = Take(sent[1].bytes, Len(last.inp))

\* the buffer held the whole header of an aggregate and only a part of its elements
PartialAggregate ==
    /\ StrictPrefix
    /\ sent[1].f.t \in {"Array", "Map", "Set"}
    /\ Len(last.inp) >= FindCRLF(sent[1].bytes) + CRLF_LEN

\* headers whose declared length the protocol forbids
NegativeHeaders ==
    {<<t>> \o IntStr(-2) \o CRLF : t \in {"$", "*"}}
    \cup {<<t>> \o IntStr(n) \o CRLF : t \in {"%", "~"}, n \in {-2, -1, 0}}

\* the bytes a run of decode removed from the buffer
Consumed(r) == Len(last.inp) - Len(r.rest)

\* C1: for every frame f, RespFrame::decode on a buffer holding exactly
\* encode(f) returns Ok(f) and leaves the buffer empty.
C1_RoundTrip ==
    (last.op \in {"decode", "bench"} /\ Whole) => last.v1 = Ok(sent[1].f, <<>>)

\* C2: on a strict prefix of a valid encoded frame the incremental decoder and
\* both length scanners answer NotComplete: never malformed, never a success.
C2_PartialBufferStability ==
    (Benched /\ StrictPrefix) =>
        /\ IsIncomplete(last.v1)
        /\ IsIncomplete(last.len1)
        /\ IsIncomplete(last.len2)

\* C3: whenever parse_frame_length returns Ok(n), parse_frame on the first n
\* bytes succeeds and leaves the cursor at the end of the slice.
C3_ScannerParserConsistency ==
    (Benched /\ IsOk(last.len2)) => IsOk(last.parse) /\ last.parse.rest = <<>>

C5_AllOrNothing ==
    (Benched /\ PartialAggregate) =>
        /\ IsIncomplete(last.v1) /\ last.v1.rest = last.inp
        /\ IsIncomplete(last.v2) /\ last.v2.rest = last.inp

\* C6: a bulk string or array header declaring a length below -1, and a map
\* or set header declaring a count of 0 or less, is rejected as malformed by
\* both decoders and both length scanners, whatever follows the header.
C6_NegativeLengthRejected ==
    (Benched /\ sent # <<>> /\ sent[1].bytes \in NegativeHeaders
             /\ StartsWith(last.inp, sent[1].bytes)) =>
        /\ IsMalformed(last.v1) /\ IsMalformed(last.v2)
        /\ IsMalformed(last.len1) /\ IsMalformed(last.len2)

\* C7: on every buffer the two decode strategies return the same outcome
\* class, and on success equal frames and the same number of bytes consumed.
C7_SameContract ==
    Benched =>
        /\ Class(last.v1) = Class(last.v2)
        /\ IsOk(last.v1) => last.v1.v = last.v2.v /\ last.v1.rest = last.v2.rest

\* C8: on an empty buffer decode and the length scanner answer NotComplete; on
\* a buffer whose first byte is no frame type byte they answer malformed.
C8_LeadingByte ==
    Benched =>
        /\ last.inp = <<>> =>
              /\ IsIncomplete(last.v1) /\ IsIncomplete(last.v2)
              /\ IsIncomplete(last.len1) /\ IsIncomplete(last.len2)
        /\ (last.inp # <<>> /\ last.inp[1] \notin TypeBytes) =>
              /\ IsMalformed(last.v1) /\ IsMalformed(last.v2)
              /\ IsMalformed(last.len1) /\ IsMalformed(last.len2)

(***************************************************************************)
(* The command layer as a state machine: a decoded frame is converted to a *)
(* command, and a converted command is executed against the backend.       *)
(***************************************************************************)
Converted(f, r) == [k |-> r.k, src |-> f, c |-> r.c]

\* Command::try_from(frame)
Convert ==
    /\ cmd.k # "ok"
    /\ \E f \in CmdFrames : cmd' = Converted(f, Command_try_from_frame(f))
    /\ reply' = NoReply
    /\ UNCHANGED <<sent, wire, buf, last, backend, written>>

Replied(cm, before, r) ==
    [k |-> "done", frame |-> r.frame, c |-> cm.c, src |-> cm.src, before |-> before]

\* the value of the latest Set executed for each key (history)
Recorded(c, w) == IF c.t = "Set" THEN Put(w, c.key, c.value) ELSE w

\* cmd.execute(&backend)
Execute ==
    /\ cmd.k = "ok"
    /\ reply' = Replied(cmd, backend, Command_execute(cmd.c, backend))
    /\ written' = Recorded(cmd.c, written)
    /\ backend' = Command_execute(cmd.c, backend).backend
    /\ cmd' = NoCmd
    /\ UNCHANGED <<sent, wire, buf, last>>

CmdNext ==
    \/ Convert
    \/ Execute

CmdSpec == Init /\ [][CmdNext]_vars

(***************************************************************************)
(* What the command layer did, in the words of the properties below.       *)
(***************************************************************************)
RecognizedNames == {b_get, b_set, b_hget, b_hset, b_hgetall}

\* the frame converted was an Array headed by a BulkString
NamedCommand ==
    /\ cmd.k # "none"
    /\ cmd.src.t = "Array"
    /\ cmd.src.v # <<>>
    /\ cmd.src.v[1].t = "BulkString"

\* the same array with its name spelled in lower case
Lowered(v) == <<BulkString(to_ascii_lowercase(v[1].v))>> \o Tail(v)

\* C9: an Array headed by a BulkString that spells get, set, hget, hset or
\* hgetall in any letter case converts as its lower-case spelling does, and
\* never to Unrecognized.
C9_CaseInsensitiveNames ==
    (NamedCommand /\ to_ascii_lowercase(cmd.src.v[1].v) \in RecognizedNames) =>
        /\ cmd.c.t # "Unrecognized"
        /\ [k |-> cmd.k, c |-> cmd.c] = Command_try_from_array(Lowered(cmd.src.v))

\* C10: a frame that is no Array, an empty Array, or an Array not headed by a
\* BulkString converts to InvalidCommand; an Array headed by a BulkString
\* with an unrecognized name converts to Unrecognized; executing Unrecognized
\* returns SimpleString("OK") and leaves the backend as it was.
C10_NonCommandOutcomes ==
    /\ (cmd.k # "none" /\ ~NamedCommand) => cmd.k = "InvalidCommand"
    /\ (NamedCommand /\ to_ascii_lowercase(cmd.src.v[1].v) \notin RecognizedNames) =>
          cmd.k = "ok" /\ cmd.c.t = "Unrecognized"
    /\ (reply.k = "done" /\ reply.c.t = "Unrecognized") =>
          reply.frame = SimpleString(OkText) /\ backend = reply.before

\* Unrecognized was executed against a backend that held a key
C10_Witness ==
    /\ reply.k = "done"
    /\ reply.c.t = "Unrecognized"
    /\ DOMAIN reply.before.map # {}
    /\ reply.frame = SimpleString(OkText)

\* the array ["get", key]
GetOf(key) == RespArray(<<BulkString(b_get), BulkString(key)>>)

\* the keys a get may name
GetKeys == {<<"j">>, <<"k">>}

\* C11: ["get", k] converts to a Get, and executing it returns Null when no
\* Set of k has been executed and the value of the latest Set of k otherwise.
C11_GetReflectsSet ==
    \A key \in GetKeys :
        /\ cmd.src = GetOf(key) => cmd.k = "ok" /\ cmd.c.t = "Get"
        /\ (reply.k = "done" /\ reply.src = GetOf(key)) =>
              reply.frame = (IF key \in DOMAIN written THEN written[key] ELSE RespNull)

\* a get of k was answered with Integer(1), the value k was last set to,
\* while another key holds another value
C11_Witness ==
    /\ reply.k = "done"
    /\ reply.src = GetOf(<<"k">>)
    /\ <<"j">> \in DOMAIN written
    /\ <<"k">> \in DOMAIN written
    /\ reply.frame = Integer(1)
    /\ reply.frame # written[<<"j">>]

\* the text of an encoded double: what stands between "," and CRLF
DoubleText(bytes) == SubSeq(bytes, 2, Len(bytes) - CRLF_LEN)

\* the double is written in exponential notation
IsExponential(text) == \E i \in 1..Len(text) : text[i] = "e"

\* fixed decimal notation after the sign: digits with at most one point
IsFixedDecimal(text) ==
    /\ text # <<>>
    /\ \A i \in 1..Len(text) : IsDigit(text[i]) \/ text[i] = "."
    /\ Cardinality({i \in 1..Len(text) : text[i] = "."}) <= 1

\* C12: a double is encoded in exponential notation exactly when its
\* magnitude is above 1e8, or below 1e-8 and not zero; every other double,
\* zero included, is encoded in fixed decimal notation behind a `+` when it
\* is not negative and behind a `-` when it is.
C12_DoubleFormatSelection ==
    \A i \in 1..Len(sent) :
        (~sent[i].raw /\ sent[i].f.t = "Double") =>
            LET d    == sent[i].f.v
                text == DoubleText(sent[i].bytes)
                expo == AbsAbove1e8(d) \/ (AbsBelow1eMinus8(d) /\ d.m # 0)
            IN  /\ IsExponential(text) <=> expo
                /\ ~expo => /\ text[1] = (IF d.neg THEN "-" ELSE "+")
                            /\ IsFixedDecimal(Tail(text))

\* C13: whenever decode, of either strategy, returns an error (incomplete or
\* malformed), the buffer holds exactly the bytes it held before the call.
C13_BufferKeptOnError ==
    /\ (last.op \in {"decode", "bench"} /\ ~IsOk(last.v1)) => last.v1.rest = last.inp
    /\ (last.op \in {"decode_v2", "bench"} /\ ~IsOk(last.v2)) => last.v2.rest = last.inp
    /\ (last.op = "decode" /\ ~IsOk(last.v1)) => buf = last.inp
    /\ (last.op = "decode_v2" /\ ~IsOk(last.v2)) => buf = last.inp

\* the frames the peer wrote from the k-th on, as the bytes of one buffer
StreamFrom(k) == AllBytes(SubSeq(sent, k, Len(sent)))

\* C14: when the buffer holds the concatenation of the encodings of the frames
\* f1..fn, every turn of the loop `while buffer non-empty: decode` (of either
\* strategy) that starts at the k-th frame returns fk and leaves exactly the
\* encodings of the frames after it, so the loop returns f1..fn in order and
\* ends with an empty buffer.
C14_StreamDecoding ==
    (wire = <<>> /\ \A i \in 1..Len(sent) : ~sent[i].raw) =>
        \A k \in 1..Len(sent) :
            last.inp = StreamFrom(k) =>
                /\ last.op = "decode" =>
                      last.v1 = Ok(sent[k].f, StreamFrom(k + 1)) /\ buf = StreamFrom(k + 1)
                /\ last.op = "decode_v2" =>
                      last.v2 = Ok(sent[k].f, StreamFrom(k + 1)) /\ buf = StreamFrom(k + 1)

\* a bulk string header whose declared length exceeds the bytes present
ShortBulk == <<"$", "2">> \o CRLF \o <<"a">>

\* C15: whenever parse_frame_length returns Ok(n) for a buffer, 1 <= n <= the
\* length of the buffer, so buf.split_to(n) and buf[n..] stay in range; this
\* holds for every input, nested aggregates and bulk strings whose declared
\* length exceeds the bytes present (on which the scanner is not Ok) included.
C15_LengthScanBound ==
    Benched =>
        /\ IsOk(last.len2) => 1 <= last.len2.n /\ last.len2.n <= Len(last.inp)
        /\ last.inp = ShortBulk => ~IsOk(last.len2)

\* the scanner returned Ok on a nested aggregate, of which it skipped every byte
C15_Witness ==
    /\ Benched /\ Whole /\ IsOk(last.len2)
    /\ sent[1].f = RespArray(<<RespArray(<<Integer(7), Boolean(TRUE)>>)>>)
    /\ last.len2.n = Len(last.inp)

====
